---- MODULE Spec2Model ----
(***************************************************************************)
(* Model of kernelci/api/models.py: the Node lifecycle validator           *)
(* (Node.validate_node_state_transition), the query-parameter translator   *)
(* (Node.translate_fields and its three stages) and the regression         *)
(* synthesizer (Regression.create_regression).                             *)
(*                                                                         *)
(* Three specifications share the variables:                               *)
(*   SpecState       node state updates routed through the validator       *)
(*   SpecTranslate   translate_fields applied to bounded filter mappings   *)
(*   SpecRegression  create_regression applied to bounded node pairs       *)
(* Each keeps the variables of the other two at their idle values.         *)
(***************************************************************************)
EXTENDS Integers, Sequences, FiniteSets, TLC

VARIABLES
    state,       \* SpecState: node id -> Node.state
    pending,     \* SpecState: the update in flight, after the validator ran
    outcome,     \* SpecState: the last update that was committed or refused
    trail,       \* SpecState: node id -> the states the node has been in
    params,      \* SpecTranslate: the caller's filter mapping
    cls,         \* SpecTranslate: the class translate_fields is called on
    translated,  \* SpecTranslate: result of translate_fields(params)
    twice,       \* SpecTranslate: result of translate_fields(translated)
    fail_node,   \* SpecRegression: first argument of create_regression
    pass_node,   \* SpecRegression: second argument of create_regression
    as_dict,     \* SpecRegression: third argument of create_regression
    regression   \* SpecRegression: what create_regression returned or raised

vars == <<state, pending, outcome, trail, params, cls, translated, twice,
          fail_node, pass_node, as_dict, regression>>

stateVars == <<state, pending, outcome, trail>>
translateVars == <<params, cls, translated, twice>>
regressionVars == <<fail_node, pass_node, as_dict, regression>>

\* A value that stands for "nothing here" in every record-valued variable.
None == [none |-> TRUE]

Range(s) == {s[i] : i \in DOMAIN s}

(***************************************************************************)
(* StateValues and the state transition validator                          *)
(***************************************************************************)

\* class StateValues
RUNNING == "running"
AVAILABLE == "available"
CLOSING == "closing"
DONE == "done"
StateValues == {RUNNING, AVAILABLE, CLOSING, DONE}

\* A slip that lets a finished node be reopened.
state_transition_map_reopen ==
    [s \in StateValues |->
        CASE s = RUNNING -> <<AVAILABLE, CLOSING, DONE>>
          [] s = AVAILABLE -> <<CLOSING, DONE>>
          [] s = CLOSING -> <<DONE>>
          [] s = DONE -> <<RUNNING>>]

\* A slip that leaves a closing node without a way out.
state_transition_map_stuck ==
    [s \in StateValues |->
        CASE s = RUNNING -> <<AVAILABLE, CLOSING, DONE>>
          [] s = AVAILABLE -> <<CLOSING, DONE>>
          [] s = CLOSING -> <<>>
          [] s = DONE -> <<>>]

\* A slip that lets a closing node go back to available.
state_transition_map_back ==
    [s \in StateValues |->
        CASE s = RUNNING -> <<AVAILABLE, CLOSING, DONE>>
          [] s = AVAILABLE -> <<CLOSING, DONE>>
          [] s = CLOSING -> <<DONE, AVAILABLE>>
          [] s = DONE -> <<>>]

\* The local state_transition_map of validate_node_state_transition.
state_transition_map ==
    [s \in StateValues |->
        CASE s = RUNNING -> <<AVAILABLE, CLOSING, DONE>>
          [] s = AVAILABLE -> <<CLOSING, DONE>>
          [] s = CLOSING -> <<DONE>>
          [] s = DONE -> <<>>]

\* The three reasons the validator returns; the f-string's argument is kept.
SameStateReason(new_state) ==
    <<"Transition to the same state. No validation is required.", new_state>>
NotAllowedReason(new_state) ==
    <<"Transition not allowed with state", new_state>>
ValidatedReason == <<"Transition validated successfully">>

\* Node.validate_node_state_transition(self, new_state), self.state = self_state.
\* It returns the pair (allowed, reason) and assigns nothing.
validate_node_state_transition(self_state, new_state) ==
    IF new_state = self_state
    THEN <<TRUE, SameStateReason(new_state)>>
    ELSE LET valid_states == state_transition_map[self_state]
         IN  IF new_state \notin Range(valid_states)
             THEN <<FALSE, NotAllowedReason(new_state)>>
             ELSE <<TRUE, ValidatedReason>>

\* A slip that applies the transition while validating it.
state_after_validation_applies(self_state, new_state) ==
    IF validate_node_state_transition(self_state, new_state)[1]
    THEN new_state ELSE self_state

\* self.state once validate_node_state_transition(self, new_state) has
\* returned: the method reads self.state (lines 369 and 378) and holds no
\* assignment to self.
state_after_validation(self_state, new_state) == self_state

\* Bounds of SpecState.
NumNodes == 2
MaxTrail == 5

NodeIds == 1..NumNodes

IdleState ==
    /\ state = [n \in NodeIds |-> RUNNING]
    /\ pending = None
    /\ outcome = None
    /\ trail = [n \in NodeIds |-> <<RUNNING>>]

IdleTranslate ==
    /\ params = None
    /\ cls = "Node"
    /\ translated = None
    /\ twice = None

IdleRegression ==
    /\ fail_node = None
    /\ pass_node = None
    /\ as_dict = FALSE
    /\ regression = None

\* Nodes as they come from the store: each in any state of the enumeration
\* (Node.state defaults to running, and a document may carry any value).
InitState ==
    /\ state \in [NodeIds -> StateValues]
    /\ pending = None
    /\ outcome = None
    /\ trail = [n \in NodeIds |-> <<state[n]>>]
    /\ IdleTranslate
    /\ IdleRegression

\* An update of node n to new_state arrives; the caller consults the validator.
Propose(n, new_state) ==
    /\ pending = None
    /\ LET verdict == validate_node_state_transition(state[n], new_state)
       IN  pending' = [node |-> n, current |-> state[n], new_state |-> new_state,
                       allowed |-> verdict[1], reason |-> verdict[2]]
    /\ state' = [state EXCEPT ![n] = state_after_validation(@, new_state)]
    /\ UNCHANGED <<outcome, trail>>
    /\ UNCHANGED <<translateVars, regressionVars>>

\* The caller commits the update the validator allowed.
Commit ==
    /\ pending # None
    /\ pending.allowed
    /\ Len(trail[pending.node]) < MaxTrail
    /\ state' = [state EXCEPT ![pending.node] = pending.new_state]
    /\ trail' = [trail EXCEPT ![pending.node] =
                    IF pending.new_state = state[pending.node]
                    THEN @ ELSE Append(@, pending.new_state)]
    /\ outcome' = [node |-> pending.node, current |-> pending.current,
                   new_state |-> pending.new_state, committed |-> TRUE]
    /\ pending' = None
    /\ UNCHANGED <<translateVars, regressionVars>>

\* The caller refuses the update the validator rejected.
Refuse ==
    /\ pending # None
    /\ ~pending.allowed
    /\ outcome' = [node |-> pending.node, current |-> pending.current,
                   new_state |-> pending.new_state, committed |-> FALSE]
    /\ pending' = None
    /\ UNCHANGED <<state, trail>>
    /\ UNCHANGED <<translateVars, regressionVars>>

NextState ==
    \/ \E n \in NodeIds, new_state \in StateValues : Propose(n, new_state)
    \/ Commit
    \/ Refuse

SpecState == InitState /\ [][NextState]_vars

\* The timeout service forces node n to DONE after its deadline
\* (ErrorCodes.NODE_TIMEOUT); its proposal goes through the validator like
\* any other update.
Timeout(n) == Propose(n, DONE)

NextTimeout ==
    \/ \E n \in NodeIds, new_state \in StateValues : Propose(n, new_state)
    \/ \E n \in NodeIds : Timeout(n)
    \/ Commit
    \/ Refuse

\* The timeout service keeps proposing DONE for every node, however often
\* other updates are in flight, and the caller finishes every update it
\* has taken to the validator.
SpecTimeout ==
    /\ InitState
    /\ [][NextTimeout]_vars
    /\ \A n \in NodeIds : SF_vars(Timeout(n))
    /\ WF_vars(Commit)
    /\ WF_vars(Refuse)

(***************************************************************************)
(* Node.translate_fields: operator extraction and typed coercion           *)
(*                                                                         *)
(* A key is the sequence of its characters, so that key.split('__') is     *)
(* computed.  A Python dict is the sequence of its (key, value) items in   *)
(* insertion order.  A value is a record [type, s, d]: a str, an ObjectId  *)
(* or a datetime carries its text in s, a dict carries its items in d.     *)
(***************************************************************************)

Str(text) == [type |-> "str", s |-> text, d |-> <<>>]
Dict(items) == [type |-> "dict", s |-> "", d |-> items]
ObjectIdValue(hex) == [type |-> "ObjectId", s |-> hex, d |-> <<>>]
DatetimeValue(instant) == [type |-> "datetime", s |-> instant, d |-> <<>>]

\* A call's result: the exception raised ("" when none) and the value.
Ok(value) == [raised |-> "", value |-> value]
Error(exception) == [raised |-> exception, value |-> Str("")]

\* k in d, d[k] and d[k] = v for a dict given as its items in order; an
\* assignment to a key already there keeps the key's position.
HasKey(items, k) == \E i \in DOMAIN items : items[i][1] = k
GetItem(items, k) == items[CHOOSE i \in DOMAIN items : items[i][1] = k][2]
SetItem(items, k, v) ==
    IF HasKey(items, k)
    THEN [i \in DOMAIN items |-> IF items[i][1] = k THEN <<k, v>> ELSE items[i]]
    ELSE Append(items, <<k, v>>)

\* bool(value): '' and {} are falsy, every other value here is truthy.
Truthy(v) ==
    CASE v.type = "str" -> v.s # ""
      [] v.type = "dict" -> v.d # <<>>
      [] OTHER -> TRUE

\* key.split('__'): the pieces between the non-overlapping occurrences of
\* the separator, found left to right.
RECURSIVE SplitFrom(_, _, _)
SplitFrom(key, i, piece) ==
    IF i > Len(key)
    THEN <<piece>>
    ELSE IF i < Len(key) /\ key[i] = "_" /\ key[i + 1] = "_"
    THEN <<piece>> \o SplitFrom(key, i + 2, <<>>)
    ELSE SplitFrom(key, i + 1, Append(piece, key[i]))

split(key) == SplitFrom(key, 1, <<>>)

\* The field names and operator names used below, as character sequences.
Sep == <<"_", "_">>
F_parent == <<"p", "a", "r", "e", "n", "t">>
F_created == <<"c", "r", "e", "a", "t", "e", "d">>
F_updated == <<"u", "p", "d", "a", "t", "e", "d">>
F_timeout == <<"t", "i", "m", "e", "o", "u", "t">>
F_holdoff == <<"h", "o", "l", "d", "o", "f", "f">>
F_state == <<"s", "t", "a", "t", "e">>
F_data_regression == <<"d", "a", "t", "a", ".", "r", "e", "g", "r", "e", "s", "s", "i", "o", "n">>
Op_ne == <<"n", "e">>
Op_lt == <<"l", "t">>
Op_gte == <<"g", "t", "e">>

\* OBJECT_ID_FIELDS and TIMESTAMP_FIELDS of Node, and of Kbuild, which
\* extends the first with 'data.regression'.
OBJECT_ID_FIELDS(class) ==
    IF class = "Kbuild"
    THEN <<F_parent, F_data_regression>>
    ELSE <<F_parent>>
TIMESTAMP_FIELDS(class) == <<F_created, F_updated, F_timeout, F_holdoff>>

\* The state of one translation: the mapping being built, the caller's
\* mapping, the keys of the built mapping whose value is the very dict
\* object the caller's mapping holds under the same key, and the exception
\* raised so far ("" when none).
Translation(built, given, shared, raised) ==
    [translated |-> built, params |-> given, shared |-> shared, raised |-> raised]

\* One iteration of the loop of _translate_operators (lines 302-311).
OperatorsStep(t, key, value) ==
    LET field == split(key)
    IN  IF Len(field) = 2
        THEN LET param == field[1]
                 op_name == field[2]
             IN  IF HasKey(t.translated, param)
                    /\ Truthy(GetItem(t.translated, param))
                 THEN LET held == GetItem(t.translated, param)
                          updated == Dict(SetItem(held.d, op_name, value))
                      IN  IF held.type # "dict"
                          THEN [t EXCEPT !.raised = "AttributeError"]
                          ELSE Translation(
                                  SetItem(t.translated, param, updated),
                                  IF param \in t.shared
                                  THEN SetItem(t.params, param, updated)
                                  ELSE t.params,
                                  t.shared, "")
                 ELSE Translation(
                         SetItem(t.translated, param,
                                 Dict(<<<<op_name, value>>>>)),
                         t.params, t.shared \ {param}, "")
        ELSE Translation(
                SetItem(t.translated, key, value), t.params,
                IF value.type = "dict"
                THEN t.shared \cup {key} ELSE t.shared \ {key},
                "")

\* Node._translate_operators(params): the loop over params.items().
RECURSIVE OperatorsLoop(_, _)
OperatorsLoop(t, i) ==
    IF i > Len(t.params) \/ t.raised # ""
    THEN t
    ELSE OperatorsLoop(OperatorsStep(t, t.params[i][1], t.params[i][2]), i + 1)

_translate_operators(given) ==
    OperatorsLoop(Translation(<<>>, given, {}, ""), 1)

\* The texts bson accepts as an ObjectId: 24 hexadecimal digits.
ObjectIdTexts == {"65a1b2c3d4e5f6a7b8c9d0e1"}

\* bson.ObjectId(value): a copy of an ObjectId, the id a valid text names,
\* InvalidId for any other text, TypeError for any other type.
ObjectId(value) ==
    CASE value.type = "ObjectId" -> Ok(value)
      [] value.type = "str" ->
            IF value.s \in ObjectIdTexts
            THEN Ok(ObjectIdValue(value.s)) ELSE Error("InvalidId")
      [] OTHER -> Error("TypeError")

\* The texts datetime.fromisoformat accepts, with the instant each names.
IsoTexts == {"2024-01-01T00:00:00"}
IsoInstant(text) ==
    CASE text = "2024-01-01T00:00:00" -> "2024-01-01 00:00:00"

\* datetime.fromisoformat(value): TypeError unless value is a str,
\* ValueError for a text that is not ISO format.
fromisoformat(value) ==
    IF value.type # "str"
    THEN Error("TypeError")
    ELSE IF value.s \in IsoTexts
    THEN Ok(DatetimeValue(IsoInstant(value.s)))
    ELSE Error("ValueError")

InSeq(x, seq) == \E i \in DOMAIN seq : seq[i] = x

\* translated.update(cls._translate_object_ids(translated)): the generator
\* walks the items in order and each pair it yields is stored at once.
RECURSIVE ObjectIdsLoop(_, _, _)
ObjectIdsLoop(class, t, i) ==
    IF i > Len(t.translated) \/ t.raised # ""
    THEN t
    ELSE LET key == t.translated[i][1]
             value == t.translated[i][2]
         IN  IF InSeq(key, OBJECT_ID_FIELDS(class))
             THEN LET made == ObjectId(value)
                  IN  IF made.raised # ""
                      THEN [t EXCEPT !.raised = made.raised]
                      ELSE ObjectIdsLoop(class,
                              Translation(SetItem(t.translated, key, made.value),
                                          t.params, t.shared \ {key}, ""),
                              i + 1)
             ELSE ObjectIdsLoop(class, t, i + 1)

_translate_object_ids(class, t) == ObjectIdsLoop(class, t, 1)

\* The inner loop of _translate_timestamps over value.items() (lines
\* 343-348): the dict of the parsed operands, or the exception.
RECURSIVE TimestampOps(_, _, _)
TimestampOps(items, i, parsed) ==
    IF i > Len(items)
    THEN Ok(Dict(parsed))
    ELSE LET made == fromisoformat(items[i][2])
         IN  IF made.raised # ""
             THEN made
             ELSE TimestampOps(items, i + 1,
                               SetItem(parsed, items[i][1], made.value))

\* The loop of _translate_timestamps over params.items() (lines 340-350),
\* building its own translated_params from the mapping it is given.
RECURSIVE TimestampsLoop(_, _, _, _)
TimestampsLoop(class, items, i, result) ==
    IF i > Len(items) \/ result.raised # ""
    THEN result
    ELSE LET key == items[i][1]
             value == items[i][2]
         IN  IF InSeq(key, TIMESTAMP_FIELDS(class))
             THEN IF value.type = "dict"
                  THEN LET made == TimestampOps(value.d, 1, <<>>)
                       IN  IF made.raised # ""
                           THEN [result EXCEPT !.raised = made.raised]
                           ELSE IF value.d = <<>>
                           THEN TimestampsLoop(class, items, i + 1, result)
                           ELSE TimestampsLoop(class, items, i + 1,
                                   [result EXCEPT !.value =
                                       SetItem(@, key, made.value)])
                  ELSE LET made == fromisoformat(value)
                       IN  IF made.raised # ""
                           THEN [result EXCEPT !.raised = made.raised]
                           ELSE TimestampsLoop(class, items, i + 1,
                                   [result EXCEPT !.value =
                                       SetItem(@, key, made.value)])
             ELSE TimestampsLoop(class, items, i + 1, result)

_translate_timestamps(class, items) ==
    TimestampsLoop(class, items, 1, [raised |-> "", value |-> <<>>])

\* dict.update(other): every item of other stored into items.
RECURSIVE Update(_, _, _)
Update(items, other, i) ==
    IF i > Len(other)
    THEN items
    ELSE Update(SetItem(items, other[i][1], other[i][2]), other, i + 1)

\* Node.translate_fields(cls, params): the three stages in order.  The
\* result carries the mapping returned (or the exception raised) and the
\* caller's mapping as the call leaves it.
translate_fields(class, given) ==
    LET first == _translate_operators(given)
    IN  IF first.raised # ""
        THEN first
        ELSE LET second == _translate_object_ids(class, first)
             IN  IF second.raised # ""
                 THEN second
                 ELSE LET stamps == _translate_timestamps(class, second.translated)
                      IN  IF stamps.raised # ""
                          THEN [second EXCEPT !.raised = stamps.raised]
                          ELSE Translation(
                                  Update(second.translated, stamps.value, 1),
                                  second.params,
                                  second.shared \
                                      {stamps.value[i][1] : i \in DOMAIN stamps.value},
                                  "")

\* Bound of SpecTranslate: the number of entries of the caller's mapping.
MaxParams == 2

\* The keys a request may carry: designated and other fields, plain and
\* with an operator, and one key with two separators.
ParamKeys ==
    {F_parent, F_parent \o Sep \o Op_ne,
     F_created, F_created \o Sep \o Op_gte, F_created \o Sep \o Op_lt,
     F_state, F_state \o Sep \o Op_ne,
     F_data_regression,
     F_state \o Sep \o Op_ne \o Sep \o Op_lt}

\* The values a request may carry: the empty text, the text of an id, the
\* text of a timestamp, another text, and an already-nested operator dict.
ParamValues ==
    {Str(""), Str("65a1b2c3d4e5f6a7b8c9d0e1"), Str("2024-01-01T00:00:00"),
     Str("done"), Dict(<<<<Op_gte, Str("2024-01-01T00:00:00")>>>>)}

\* The mappings of at most MaxParams entries, keys pairwise distinct, in
\* every insertion order.
ParamMappings ==
    UNION {{m \in [1..n -> ParamKeys \X ParamValues] :
                \A i, j \in 1..n : m[i][1] = m[j][1] => i = j} :
           n \in 0..MaxParams}

InitTranslate ==
    /\ params \in ParamMappings
    /\ cls \in {"Node", "Kbuild"}
    /\ translated = None
    /\ twice = None
    /\ IdleState
    /\ IdleRegression

\* The call cls.translate_fields(params): its result, the mapping it was
\* given, and what its first stage, _translate_operators, produced; params
\* is left as the call leaves the caller's mapping.
Translate ==
    /\ translated = None
    /\ LET t == translate_fields(cls, params)
           first == _translate_operators(params)
       IN  /\ translated' = [raised |-> t.raised,
                             value |-> IF t.raised = "" THEN t.translated ELSE <<>>,
                             given |-> params,
                             extracted |->
                                [raised |-> first.raised,
                                 value |-> IF first.raised = ""
                                           THEN first.translated ELSE <<>>]]
           /\ params' = t.params
    /\ UNCHANGED <<cls, twice>>
    /\ UNCHANGED <<stateVars, regressionVars>>

\* The translated mapping is handed to cls.translate_fields once more.
TranslateAgain ==
    /\ translated # None
    /\ translated.raised = ""
    /\ twice = None
    /\ LET t == translate_fields(cls, translated.value)
       IN  twice' = [raised |-> t.raised,
                     value |-> IF t.raised = "" THEN t.translated ELSE <<>>]
    /\ UNCHANGED <<params, cls, translated>>
    /\ UNCHANGED <<stateVars, regressionVars>>

NextTranslate ==
    \/ Translate
    \/ TranslateAgain

SpecTranslate == InitTranslate /\ [][NextTranslate]_vars

(***************************************************************************)
(* ResultValues and Regression.create_regression                           *)
(***************************************************************************)

\* Python's None in a field whose other values are strings.
Unset == "None"

\* class ResultValues
PASS == "pass"
FAIL == "fail"
SKIP == "skip"
INCOMPLETE == "incomplete"
ResultValues == {PASS, FAIL, SKIP, INCOMPLETE}

\* The local cmp_fields of create_regression, in its order.
cmp_fields ==
    <<"name", "group", "path", "data.kernel_revision", "data.arch",
      "data.defconfig", "data.config_full", "data.compiler", "data.platform">>

\* A slip in the field list: config_full read from defconfig.
getter_config_full_slip(field, node) ==
    CASE field = "name" -> node.name
      [] field = "group" -> node.group
      [] field = "path" -> node.path
      [] field = "data.kernel_revision" -> node.data.kernel_revision
      [] field = "data.arch" -> node.data.arch
      [] field = "data.defconfig" -> node.data.defconfig
      [] field = "data.config_full" -> node.data.defconfig
      [] field = "data.compiler" -> node.data.compiler
      [] field = "data.platform" -> node.data.platform

\* attrgetter(field)(node) for the dotted names of cmp_fields.
getter(field, node) ==
    CASE field = "name" -> node.name
      [] field = "group" -> node.group
      [] field = "path" -> node.path
      [] field = "data.kernel_revision" -> node.data.kernel_revision
      [] field = "data.arch" -> node.data.arch
      [] field = "data.defconfig" -> node.data.defconfig
      [] field = "data.config_full" -> node.data.config_full
      [] field = "data.compiler" -> node.data.compiler
      [] field = "data.platform" -> node.data.platform

\* raise RuntimeError(error_msg + ...): the message is kept as its fixed
\* text and the values formatted into it.
Raise(error) == [raised |-> TRUE, error |-> error, value |-> None]
Return(value) == [raised |-> FALSE, error |-> <<>>, value |-> value]

FieldDiffers == "is different in the fail node than in the pass node"
CreatedBefore == "The fail node was created before the pass node"
PassWrongResult == "The pass node has a wrong result"
FailWrongResult == "The fail node has a wrong result"

\* A slip that stores the two node references the wrong way round.
RegressionObject_swapped(fail, pass) ==
    [kind |-> "regression",
     name |-> fail.name,
     path |-> fail.path,
     group |-> fail.group,
     state |-> DONE,
     result |-> FAIL,
     data |-> [arch |-> fail.data.arch,
               defconfig |-> fail.data.defconfig,
               config_full |-> fail.data.config_full,
               compiler |-> fail.data.compiler,
               platform |-> fail.data.platform,
               failed_kernel_revision |-> fail.data.kernel_revision,
               fail_node |-> pass.id,
               pass_node |-> fail.id,
               node_sequence |-> <<>>,
               device |-> Unset]]

\* The typed entity cls(name=..., path=..., group=..., data=data_field,
\* state=StateValues.DONE.value); kind, result, node_sequence and device
\* take the defaults of Regression and RegressionData.
RegressionObject(fail, pass) ==
    [kind |-> "regression",
     name |-> fail.name,
     path |-> fail.path,
     group |-> fail.group,
     state |-> DONE,
     result |-> FAIL,
     data |-> [arch |-> fail.data.arch,
               defconfig |-> fail.data.defconfig,
               config_full |-> fail.data.config_full,
               compiler |-> fail.data.compiler,
               platform |-> fail.data.platform,
               failed_kernel_revision |-> fail.data.kernel_revision,
               fail_node |-> fail.id,
               pass_node |-> pass.id,
               node_sequence |-> <<>>,
               device |-> Unset]]

\* Whether a field value is Python's None (strings only; a path or a
\* revision is never None here).
IsUnset(v) == v \in {Unset}

\* The keys of a mapping that json(exclude_none=True) keeps.
KeptKeys(rec, optional) ==
    {k \in DOMAIN rec : ~(k \in optional /\ IsUnset(rec[k]))}

\* json.loads(regression_obj.json(exclude_none=True)): the same mapping with
\* every None-valued entry left out, at both levels.
ExcludeNone(obj) ==
    LET data == obj.data
        dataKeys == KeptKeys(data, {"arch", "defconfig", "config_full",
                                    "compiler", "platform", "device"})
        topKeys == KeptKeys(obj, {"group"})
    IN  [k \in topKeys |->
            IF k = "data" THEN [d \in dataKeys |-> data[d]] ELSE obj[k]]

\* Positions of cmp_fields at which the two nodes differ.
Differing(fail, pass) ==
    {i \in 1..Len(cmp_fields) :
        getter(cmp_fields[i], fail) # getter(cmp_fields[i], pass)}

Min(S) == CHOOSE x \in S : \A y \in S : x <= y

\* The sanity check on the pass node's result (line 763).
PassResultCheckFails(pass) == pass.result # PASS

\* A slip that takes an unset result for "not failed yet".
FailResultCheckFails_unset_ok(fail) == fail.result \notin {FAIL, Unset}

\* The sanity check on the fail node's result (line 766).
FailResultCheckFails(fail) == fail.result # FAIL

\* Regression.create_regression(cls, fail_node, pass_node, as_dict).
create_regression(fail, pass, dict) ==
    IF Differing(fail, pass) # {}
    THEN LET field == cmp_fields[Min(Differing(fail, pass))]
         IN  Raise(<<FieldDiffers, field>>)
    ELSE IF pass.created > fail.created
    THEN Raise(<<CreatedBefore>>)
    ELSE IF PassResultCheckFails(pass)
    THEN Raise(<<PassWrongResult, pass.result>>)
    ELSE IF FailResultCheckFails(fail)
    THEN Raise(<<FailWrongResult, fail.result>>)
    ELSE IF dict
    THEN Return(ExcludeNone(RegressionObject(fail, pass)))
    ELSE Return(RegressionObject(fail, pass))

\* Bounds of SpecRegression: creation instants 1..MaxCreated, and at most
\* MaxDiff comparison fields in which the two nodes differ.
MaxCreated == 2
MaxDiff == 2

\* The two values each comparison field takes; the second of an optional
\* field is None.
FieldValues(field) ==
    CASE field = "name" -> <<"baseline-x86", "kselftest-dt">>
      [] field = "group" -> <<"kselftest", Unset>>
      [] field = "path" -> <<<<"checkout", "kbuild", "baseline-x86">>,
                             <<"checkout", "kbuild">>>>
      [] field = "data.kernel_revision" ->
            <<[tree |-> "mainline", branch |-> "master", commit |-> "c0ffee"],
              [tree |-> "mainline", branch |-> "master", commit |-> "decade"]>>
      [] field = "data.arch" -> <<"x86_64", Unset>>
      [] field = "data.defconfig" -> <<"defconfig", "allnoconfig">>
      [] field = "data.config_full" -> <<"defconfig+kselftest", Unset>>
      [] field = "data.compiler" -> <<"gcc-12", "clang-17">>
      [] field = "data.platform" -> <<"qemu-x86", Unset>>

\* A validated node whose comparison fields take the second value exactly
\* at the positions in alt.
MakeNode(id, alt, created, result) ==
    LET v(i) == FieldValues(cmp_fields[i])[IF i \in alt THEN 2 ELSE 1]
    IN  [id |-> id,
         name |-> v(1),
         group |-> v(2),
         path |-> v(3),
         data |-> [kernel_revision |-> v(4), arch |-> v(5), defconfig |-> v(6),
                   config_full |-> v(7), compiler |-> v(8), platform |-> v(9)],
         created |-> created,
         result |-> result]

FailId == "65a1b2c3d4e5f6a7b8c9d0e1"
PassId == "65a1b2c3d4e5f6a7b8c9d0e0"

\* The arguments of one call: the pass node, and a fail node that differs
\* from it in at most MaxDiff comparison fields; any creation instants, any
\* results (None included), either output form.
InitRegression ==
    /\ \E base \in {{}, 1..Len(cmp_fields)},
          diff \in {d \in SUBSET (1..Len(cmp_fields)) : Cardinality(d) <= MaxDiff},
          cf \in 1..MaxCreated, cp \in 1..MaxCreated,
          rf \in ResultValues \cup {Unset}, rp \in ResultValues \cup {Unset} :
            /\ pass_node = MakeNode(PassId, base, cp, rp)
            /\ fail_node = MakeNode(FailId,
                                    (base \ diff) \cup (diff \ base), cf, rf)
    /\ as_dict \in BOOLEAN
    /\ regression = None
    /\ IdleState
    /\ IdleTranslate

\* The call Regression.create_regression(fail_node, pass_node, as_dict).
CreateRegression ==
    /\ regression = None
    /\ regression' = create_regression(fail_node, pass_node, as_dict)
    /\ UNCHANGED <<fail_node, pass_node, as_dict>>
    /\ UNCHANGED <<stateVars, translateVars>>

NextRegression == CreateRegression

SpecRegression == InitRegression /\ [][NextRegression]_vars

(***************************************************************************)
(* Claims about the state transition validator                             *)
(***************************************************************************)

\* The transition table of the specification, written as its set of edges.
TableEdges ==
    {<<RUNNING, AVAILABLE>>, <<RUNNING, CLOSING>>, <<RUNNING, DONE>>,
     <<AVAILABLE, CLOSING>>, <<AVAILABLE, DONE>>,
     <<CLOSING, DONE>>}

\* The order RUNNING < AVAILABLE < CLOSING < DONE.
Rank(s) ==
    CASE s = RUNNING -> 0 [] s = AVAILABLE -> 1 [] s = CLOSING -> 2 [] s = DONE -> 3

\* C1: for every (current, target) the validator answers allowed = TRUE
\* exactly when target = current or (current, target) is an edge of the
\* table; a same-state proposal is reported as such, and every other case
\* is answered allowed = FALSE together with the rejection reason.
C1_ValidatorAgreesWithTable ==
    pending # None =>
        /\ pending.allowed <=>
              \/ pending.new_state = pending.current
              \/ <<pending.current, pending.new_state>> \in TableEdges
        /\ pending.new_state = pending.current =>
              pending.reason = SameStateReason(pending.new_state)
        /\ ~pending.allowed =>
              pending.reason = NotAllowedReason(pending.new_state)

\* C1 witness: the validator was asked for a move that is not in the
\* table, from closing back to running, and rejected it.
C1_Witness ==
    /\ pending # None
    /\ pending.current = CLOSING
    /\ pending.new_state = RUNNING
    /\ ~pending.allowed

\* C2: DONE is terminal: no step takes a node out of DONE.
C2_DoneIsTerminal ==
    [][\A n \in NodeIds : state[n] = DONE => state'[n] = DONE]_vars

\* C2 witness: an update of a DONE node to another state went through the
\* validator and was refused, and the node is still DONE.
C2_Witness ==
    /\ outcome # None
    /\ outcome.current = DONE
    /\ outcome.new_state # DONE
    /\ ~outcome.committed
    /\ state[outcome.node] = DONE

\* C3: every committed change of state is an edge of the table, so the
\* state never decreases in the order RUNNING < AVAILABLE < CLOSING < DONE
\* and a state that has been left is never entered again.
C3_MovesAlongGraph ==
    \A n \in NodeIds :
        /\ \A i \in 1..(Len(trail[n]) - 1) :
              /\ <<trail[n][i], trail[n][i + 1]>> \in TableEdges
              /\ Rank(trail[n][i]) < Rank(trail[n][i + 1])
        /\ \A i, j \in 1..Len(trail[n]) : trail[n][i] = trail[n][j] => i = j
        /\ trail[n][Len(trail[n])] = state[n]

\* C3 witness: a node has walked the whole graph, one committed update at a
\* time, and a later proposal to go back was refused.
C3_Witness ==
    \E n \in NodeIds :
        /\ trail[n] = <<RUNNING, AVAILABLE, CLOSING, DONE>>
        /\ outcome # None
        /\ outcome.node = n
        /\ ~outcome.committed

\* C12: the validator does not mutate the node: over every step in which
\* it is consulted, whatever the current and the proposed state and whether
\* it allows or rejects, the state of every node is what it was before.
C12_ValidatorDoesNotMutate ==
    [][(pending = None /\ pending' # None) =>
          /\ state' = state
          /\ state'[pending'.node] = pending'.current]_vars

\* C12 witness: the validator has allowed a change of state that is not
\* committed yet, and the node is still in the state it was in.
C12_Witness ==
    /\ pending # None
    /\ pending.allowed
    /\ pending.new_state # pending.current
    /\ state[pending.node] = pending.current
    /\ state[pending.node] # pending.new_state

\* C15: the proposal to move to DONE is allowed from every state of a
\* node, and under a fair timeout service, which keeps proposing DONE and
\* commits only what the validator allows, every node eventually is DONE
\* and stays DONE.
C15_TimeoutReachesDone ==
    /\ [](pending # None /\ pending.new_state = DONE => pending.allowed)
    /\ \A n \in NodeIds : <>[](state[n] = DONE)

\* C15 witness: every node is DONE, the last of them taken there from
\* closing by a committed proposal.
C15_Witness ==
    /\ \A n \in NodeIds : state[n] = DONE
    /\ outcome # None
    /\ outcome.committed
    /\ outcome.current = CLOSING
    /\ outcome.new_state = DONE
    /\ pending = None

(***************************************************************************)
(* Claims about the query translator                                       *)
(***************************************************************************)

\* The call translate_fields(params) has been made.
Translated == translated # None

\* Equality of two Python dicts: the same keys with equal values, whatever
\* the insertion order, nested dicts compared the same way.
RECURSIVE SameItems(_, _)
SameItems(a, b) ==
    /\ Len(a) = Len(b)
    /\ \A i \in DOMAIN a :
          /\ HasKey(b, a[i][1])
          /\ LET v == a[i][2]
                 w == GetItem(b, a[i][1])
             IN  v.type = w.type /\ v.s = w.s /\ SameItems(v.d, w.d)

IdText == "65a1b2c3d4e5f6a7b8c9d0e1"
StampText == "2024-01-01T00:00:00"

\* A designated field of the class, its well-formed raw text and the typed
\* value the text stands for.
DesignatedCases ==
    {<<f, Str(IdText), ObjectIdValue(IdText)>> :
        f \in Range(OBJECT_ID_FIELDS(cls))}
    \cup {<<f, Str(StampText), DatetimeValue("2024-01-01 00:00:00")>> :
            f \in Range(TIMESTAMP_FIELDS(cls))}

\* C4 (as stated): for every designated field f, identifier-bearing or
\* timestamp-bearing, a mapping whose one entry is f__op = raw translates,
\* without failing, to {f: {op: coerced}}, and a mapping whose one entry is
\* f = raw translates to {f: coerced}.
C4_CoercionPreservesNesting ==
    (Translated /\ Len(translated.given) = 1) =>
        LET key == translated.given[1][1]
            raw == translated.given[1][2]
            field == split(key)
        IN  \A c \in DesignatedCases :
                /\ (Len(field) = 2 /\ field[1] = c[1] /\ raw = c[2]) =>
                      /\ translated.extracted.value =
                            <<<<c[1], Dict(<<<<field[2], raw>>>>)>>>>
                      /\ translated.raised = ""
                      /\ translated.value =
                            <<<<c[1], Dict(<<<<field[2], c[3]>>>>)>>>>
                /\ (key = c[1] /\ raw = c[2]) =>
                      /\ translated.raised = ""
                      /\ translated.value = <<<<c[1], c[3]>>>>

\* C5 (as stated): translating the translated mapping once more succeeds
\* and gives the same mapping.
C5_TranslationIdempotent ==
    twice # None =>
        /\ twice.raised = ""
        /\ SameItems(twice.value, translated.value)

\* The keys of the given mapping that carry an operator on base field a,
\* as (operator, value) pairs.
OperatorsOn(given, a) ==
    {<<split(given[i][1])[2], given[i][2]>> :
        i \in {j \in DOMAIN given :
                 Len(split(given[j][1])) = 2 /\ split(given[j][1])[1] = a}}

\* C6 (as stated): for every base field a with keys a__op in the input,
\* operator extraction gives exactly one entry keyed by a, whose value is
\* the mapping of exactly those operators to their values; and every key
\* without a separator becomes the direct entry key: value.
C6_OperatorsAccumulate ==
    Translated =>
        LET given == translated.given
            out == translated.extracted
        IN  \A i \in DOMAIN given :
                LET key == given[i][1]
                    field == split(key)
                IN  /\ Len(field) = 2 =>
                          /\ out.raised = ""
                          /\ Cardinality({j \in DOMAIN out.value :
                                            out.value[j][1] = field[1]}) = 1
                          /\ GetItem(out.value, field[1]).type = "dict"
                          /\ Range(GetItem(out.value, field[1]).d) =
                                OperatorsOn(given, field[1])
                    /\ Len(field) = 1 =>
                          /\ out.raised = ""
                          /\ HasKey(out.value, key)
                          /\ GetItem(out.value, key) = given[i][2]

\* C11 (as stated): translate_fields leaves the caller's mapping as it was
\* given, nested operator mappings included, whether the call returns or
\* raises.
C11_InputLeftUnchanged ==
    Translated => params = translated.given

\* All the insertion orders of the items of a mapping.
Orders(given) ==
    {[i \in DOMAIN given |-> given[p[i]]] :
        p \in {q \in [DOMAIN given -> DOMAIN given] :
                 \A i, j \in DOMAIN given : q[i] = q[j] => i = j}}

\* C14 (as stated): operator extraction gives, for every insertion order of
\* the same items, the same mapping, or fails for every one of them.
C14_KeyOrderIrrelevant ==
    Translated =>
        \A other \in Orders(translated.given) :
            LET there == _translate_operators(other)
                here == translated.extracted
            IN  /\ (there.raised = "") <=> (here.raised = "")
                /\ here.raised = "" => SameItems(there.translated, here.value)

(***************************************************************************)
(* Claims about the regression synthesizer                                 *)
(***************************************************************************)

\* The call has been made.
Called == regression # None

\* The comparison fields, by name, in which the two arguments differ.
DifferentFields ==
    {f \in {"name"} : fail_node.name # pass_node.name}
    \cup {f \in {"group"} : fail_node.group # pass_node.group}
    \cup {f \in {"path"} : fail_node.path # pass_node.path}
    \cup {f \in {"data.kernel_revision"} :
            fail_node.data.kernel_revision # pass_node.data.kernel_revision}
    \cup {f \in {"data.arch"} : fail_node.data.arch # pass_node.data.arch}
    \cup {f \in {"data.defconfig"} :
            fail_node.data.defconfig # pass_node.data.defconfig}
    \cup {f \in {"data.config_full"} :
            fail_node.data.config_full # pass_node.data.config_full}
    \cup {f \in {"data.compiler"} :
            fail_node.data.compiler # pass_node.data.compiler}
    \cup {f \in {"data.platform"} :
            fail_node.data.platform # pass_node.data.platform}

\* dict.get(k) on the returned mapping, attribute access on the entity.
Field(rec, k) == IF k \in DOMAIN rec THEN rec[k] ELSE Unset

\* C7 (as stated): whenever the pass node was created at or after the fail
\* node, create_regression raises and returns no Regression - and, the
\* comparison fields agreeing, the error is the temporal-ordering one.
C7_PassMustStrictlyPrecede ==
    (Called /\ pass_node.created >= fail_node.created) =>
        /\ regression.raised
        /\ DifferentFields = {} =>
              regression.error = <<CreatedBefore>>

\* C8: a Regression is returned only if pass_node.result is PASS and
\* fail_node.result is FAIL; with any other pair of results (None, SKIP and
\* INCOMPLETE included) the call raises and returns no entity, and when the
\* checks that come before the result checks have passed, the error is the
\* result-mismatch one: about the pass node first, else about the fail node,
\* carrying the wrong result.
C8_ResultsMustBePassAndFail ==
    Called =>
        /\ ~regression.raised =>
              pass_node.result = PASS /\ fail_node.result = FAIL
        /\ (pass_node.result # PASS \/ fail_node.result # FAIL) =>
              /\ regression.raised
              /\ regression.value = None
              /\ regression.error[1] \in
                    {FieldDiffers, CreatedBefore, PassWrongResult, FailWrongResult}
              /\ regression.error[1] = FieldDiffers =>
                    DifferentFields # {}
              /\ regression.error[1] = CreatedBefore =>
                    pass_node.created > fail_node.created
              /\ regression.error[1] = PassWrongResult =>
                    /\ pass_node.result # PASS
                    /\ regression.error[2] = pass_node.result
              /\ regression.error[1] = FailWrongResult =>
                    /\ pass_node.result = PASS
                    /\ fail_node.result # FAIL
                    /\ regression.error[2] = fail_node.result
        /\ (/\ DifferentFields = {}
            /\ pass_node.created <= fail_node.created
            /\ (pass_node.result # PASS \/ fail_node.result # FAIL)) =>
              regression.error[1] \in {PassWrongResult, FailWrongResult}

\* C8 witness: an otherwise matching pair whose fail node has no result
\* was rejected with the result-mismatch error naming None.
C8_Witness ==
    /\ Called
    /\ pass_node.result = PASS
    /\ fail_node.result = Unset
    /\ pass_node.created < fail_node.created
    /\ regression.raised
    /\ regression.error = <<FailWrongResult, Unset>>

\* C9: whenever the two nodes differ in at least one of the nine comparison
\* fields, create_regression raises, returns no entity, and the error names
\* one of the nine fields in which the two nodes do differ.
C9_ComparisonFieldsMustAgree ==
    (Called /\ DifferentFields # {}) =>
        /\ regression.raised
        /\ regression.value = None
        /\ regression.error[1] = FieldDiffers
        /\ regression.error[2] \in DifferentFields

\* C9 witness: two nodes with the right results and order that differ only
\* in data.config_full were rejected on that field.
C9_Witness ==
    /\ Called
    /\ DifferentFields = {"data.config_full"}
    /\ pass_node.result = PASS
    /\ fail_node.result = FAIL
    /\ pass_node.created < fail_node.created
    /\ regression.raised
    /\ regression.error = <<FieldDiffers, "data.config_full">>

\* The preconditions of a successful synthesis, as C10 states them.
C10_Preconditions ==
    /\ DifferentFields = {}
    /\ pass_node.created < fail_node.created
    /\ pass_node.result = PASS
    /\ fail_node.result = FAIL

\* C10: when the nodes agree on the nine comparison fields, the pass node
\* was created before the fail node and the results are PASS and FAIL, the
\* call succeeds and the Regression returned (entity or plain mapping, where
\* a None entry is left out) has name, path and group of the fail node,
\* data.fail_node and data.pass_node the two ids, the build descriptors and
\* failed_kernel_revision of the fail node, and state DONE.
C10_SynthesisSucceeds ==
    (Called /\ C10_Preconditions) =>
        /\ ~regression.raised
        /\ LET r == regression.value
               d == regression.value.data
           IN  /\ r.name = fail_node.name
               /\ r.path = fail_node.path
               /\ Field(r, "group") = fail_node.group
               /\ r.state = DONE
               /\ d.fail_node = fail_node.id
               /\ d.pass_node = pass_node.id
               /\ Field(d, "arch") = fail_node.data.arch
               /\ Field(d, "defconfig") = fail_node.data.defconfig
               /\ Field(d, "config_full") = fail_node.data.config_full
               /\ Field(d, "compiler") = fail_node.data.compiler
               /\ Field(d, "platform") = fail_node.data.platform
               /\ d.failed_kernel_revision = fail_node.data.kernel_revision
               /\ ~as_dict => "group" \in DOMAIN r

\* C10 witness: a successful call that returned the typed entity for a pair
\* of nodes that have a group and an architecture.
C10_Witness ==
    /\ Called
    /\ C10_Preconditions
    /\ ~as_dict
    /\ ~regression.raised
    /\ fail_node.group # Unset
    /\ fail_node.data.arch # Unset
    /\ regression.value.data.fail_node = FailId

\* The first comparison field, in the listed order, in which the two
\* arguments differ.
FirstDifferentField ==
    cmp_fields[CHOOSE i \in 1..Len(cmp_fields) :
                  /\ cmp_fields[i] \in DifferentFields
                  /\ \A j \in 1..(i - 1) : cmp_fields[j] \notin DifferentFields]

\* The preconditions of the synthesis that the two arguments violate:
\* 1 the comparison fields, 2 the pass node strictly earlier than the fail
\* node, 3 the pass node's result, 4 the fail node's result.
ViolatedPreconditions ==
    {k \in {1} : DifferentFields # {}}
    \cup {k \in {2} : ~(pass_node.created < fail_node.created)}
    \cup {k \in {3} : pass_node.result # PASS}
    \cup {k \in {4} : fail_node.result # FAIL}

\* The error that reports the violation of precondition k.
ErrorOf(k) ==
    CASE k = 1 -> <<FieldDiffers, FirstDifferentField>>
      [] k = 2 -> <<CreatedBefore>>
      [] k = 3 -> <<PassWrongResult, pass_node.result>>
      [] k = 4 -> <<FailWrongResult, fail_node.result>>

\* C13 (as stated): when several preconditions are violated at once, the
\* call raises the error of the earliest of them in the order comparison
\* fields (in their listed order), temporal ordering, pass node result,
\* fail node result.
C13_EarliestViolationReported ==
    (Called /\ Cardinality(ViolatedPreconditions) >= 2) =>
        /\ regression.raised
        /\ regression.error = ErrorOf(Min(ViolatedPreconditions))

====
